---- MODULE Spec2Model ----
(***************************************************************************)
(* Model of the converter layer of ics.py:                                 *)
(*   src/src/ics/converter/component.py  ComponentMeta, populate/serialize,*)
(*                                       MemberComponentConverter,         *)
(*                                       MutablePseudoComponent,           *)
(*                                       ImmutableComponentMeta            *)
(*   src/src/ics/converter/special.py    RecurrenceConverter,              *)
(*                                       PersonConverter, alarm converter  *)
(*   src/src/ics/__init__.py             initialize_converters             *)
(*   src/ics/calendar.py                 Calendar.__init__ / populate      *)
(*                                                                         *)
(* A populate pass and a serialize pass are single-threaded and            *)
(* synchronous, so each public entry point is one action.  The order of    *)
(* the converter calls made inside a pass is kept in the history variable  *)
(* `calls`.  An exception ends the pass: `err` names it and pc = "failed". *)
(***************************************************************************)
EXTENDS Integers, Sequences, FiniteSets, TLC

\* Longest container (number of child items) given to load_instance.
MaxItems == 3
\* Number of distinct instants (datetimes), 1..MaxDate.
MaxDate == 2
\* Longest list of repeating rules of a rule-set built by the caller.
MaxRules == 2
\* Most top-level containers in a parsed document.
MaxDocs == 2
\* Most member components (events of a calendar, alarms of an event).
MaxMembers == 2
\* Deepest nesting of Python calls before the interpreter raises
\* RecursionError (sys.getrecursionlimit(), scaled down).
RecursionLimit == 3
\* Most calls of initialize_converters in one process.
MaxBootCalls == 3

\* Python's None, for a rule without start instant and a context without
\* a "DTSTART" entry (context.get("DTSTART", None)).
None == 0
Dates == 1..MaxDate

Last(s) == s[Len(s)]
Front(s) == SubSeq(s, 1, Len(s) - 1)

\* Sequences over S of length at most n.
SeqsUpTo(S, n) == UNION {[1..k -> S] : k \in 0..n}

(***************************************************************************)
(* Grammar tree (ics.grammar, external): an item is a ContentLine or a     *)
(* nested Container.  A value is a piece of text, modelled as a tagged     *)
(* pair; the text of a nested container's contents is opaque here.         *)
(***************************************************************************)
ContentLine(n, v) == [kind |-> "line", name |-> n, value |-> v]
\* A nested container as a child item; v is the sequence of its own items
\* (or opaque text for a container no converter looks into).
SubContainer(n, v) == [kind |-> "container", name |-> n, value |-> v]

Text(n) == <<"TEXT", n>>
\* DatetimeConverter.INST.serialize: an instant to its DATE-TIME text.
DatetimeSerialize(d) == <<"DATE-TIME", d>>
\* A property value listing several instants ("RDATE:d1,d2"), as the text
\* of the grammar layer.
DateListText(ds) == <<"DATE-TIME">> \o ds
\* dateutil's date parsing inside rrulestr: the value is split at "," and
\* every part read as an instant.
DatetimeParse(v) == Tail(v)
\* rrule_to_ContentLine: a repeating rule to its RRULE line (DTSTART is not
\* part of the line), and rrulestr's reading of that line.
RecurText(rule) == <<"RECUR", rule.id>>

RecurrenceNames == <<"RRULE", "RDATE", "EXRULE", "EXDATE", "DTSTART">>

SeqToSet(s) == {s[i] : i \in 1..Len(s)}

(***************************************************************************)
(* Component types.  A type is its NAME and its declared fields            *)
(* (attr.fields): name, declared type and converter priority.  The field   *)
(* tables are inputs of ComponentMeta; they are chosen so that sorting     *)
(* reorders the converters, one name is claimed by two converters, and a   *)
(* field has no converter.                                                 *)
(***************************************************************************)
Field(n, t, p) == [name |-> n, type |-> t, priority |-> p]

FieldNames == {"rrule", "rrule2", "organizer", "attendee", "geo", "events", "alarms"}

\* cls is the Python class of the type, NAME its container name.
ComponentTypes ==
    { [cls |-> "Event", NAME |-> "VEVENT",
       fields |-> << Field("rrule", "rruleset", 1),
                     Field("organizer", "Organizer", 0),
                     Field("geo", "Geo", 0),
                     Field("alarms", "BaseAlarm", 2) >>],
      [cls |-> "Todo", NAME |-> "VTODO",
       fields |-> << Field("rrule", "rruleset", 2),
                     Field("attendee", "Attendee", 1),
                     Field("rrule2", "rruleset", 0) >>],
      [cls |-> "Journal", NAME |-> "VJOURNAL",
       fields |-> << Field("organizer", "Organizer", 0) >>],
      [cls |-> "Calendar", NAME |-> "VCALENDAR",
       fields |-> << Field("events", "Event", 0) >>] }

\* The alarm classes (ics/alarm): all share BaseAlarm.NAME.  Their fields
\* are converted by value converters outside this layer, so none of them
\* resolves to a converter here.
AlarmClasses == {"BaseAlarm", "AudioAlarm", "CustomAlarm", "DisplayAlarm",
                 "EmailAlarm", "NoneAlarm"}

AlarmTypes ==
    { [cls |-> c, NAME |-> "VALARM", fields |-> << Field("trigger", "Trigger", 0) >>] :
        c \in AlarmClasses }

\* Classes registered in ComponentMeta.BY_TYPE with a plain ComponentMeta
\* (ics/__init__.py lines 32-33).
MemberClasses == {"Event", "Todo"}

\* AttributeConverter.BY_TYPE as registered in special.py; get_converter_for
\* looks the declared type up and yields no converter when it is absent.
\* The result is a sequence of zero or one converter (Python's None is <<>>).
\* A field whose declared type is a class of ComponentMeta.BY_TYPE gets the
\* converter that meta's __call__ builds: a MemberComponentConverter holding
\* the meta (here: its class key), or an AlarmMemberComponentConverter.
get_converter_for(a) ==
    IF a.type = "rruleset"
    THEN << [kind |-> "Recurrence", field |-> a.name, priority |-> a.priority,
             meta |-> ""] >>
    ELSE IF a.type \in {"Person", "Attendee", "Organizer"}
    THEN << [kind |-> "Person", field |-> a.name, priority |-> a.priority,
             meta |-> ""] >>
    ELSE IF a.type \in MemberClasses
    THEN << [kind |-> "Member", field |-> a.name, priority |-> a.priority,
             meta |-> a.type] >>
    ELSE IF a.type \in AlarmClasses
    THEN << [kind |-> "Alarm", field |-> a.name, priority |-> a.priority,
             meta |-> ""] >>
    ELSE << >>

\* The component type of a class.
TypeOf(cls) == CHOOSE t \in ComponentTypes \cup AlarmTypes : t.cls = cls

filter_ics_names(conv) ==
    IF conv.kind = "Recurrence" THEN RecurrenceNames
    ELSE IF conv.kind = "Member" THEN << TypeOf(conv.meta).NAME >>
    ELSE IF conv.kind = "Alarm" THEN << "VALARM" >>
    ELSE << >>

\* sorted(converters, key=lambda c: c.priority): Python's sort is stable.
InsertByPriority(c, s) ==
    LET k == Cardinality({i \in 1..Len(s) : s[i].priority <= c.priority})
    IN  SubSeq(s, 1, k) \o <<c>> \o SubSeq(s, k + 1, Len(s))

RECURSIVE sorted_by_priority(_)
sorted_by_priority(cs) ==
    IF cs = << >> THEN << >>
    ELSE InsertByPriority(Last(cs), sorted_by_priority(Front(cs)))

RECURSIVE ResolveFields(_)
ResolveFields(fields) ==
    IF fields = << >> THEN << >>
    ELSE get_converter_for(Head(fields)) \o ResolveFields(Tail(fields))

UnsortedConverters(component_type) ==
    ResolveFields(component_type.fields)

find_converters(component_type) ==
    sorted_by_priority(ResolveFields(component_type.fields))

\* __attrs_post_init__: name -> the converters claiming it, in tuple order.
BuildLookup(converters) ==
    LET names == UNION {SeqToSet(filter_ics_names(converters[i])) :
                            i \in 1..Len(converters)}
    IN  [n \in names |->
            SelectSeq(converters, LAMBDA c : n \in SeqToSet(filter_ics_names(c)))]

ComponentMeta(component_type) ==
    LET convs == find_converters(component_type)
    IN  [component_type |-> component_type,
         converters |-> convs,
         converter_lookup |-> BuildLookup(convs)]

\* The classes of the converters of a meta.
KindsOf(m) == {m.converters[k].kind : k \in 1..Len(m.converters)}

\* self.converter_lookup.get(line.name, [])
LookupGet(m, name) ==
    IF name \in DOMAIN m.converter_lookup THEN m.converter_lookup[name] ELSE << >>

(***************************************************************************)
(* Context, component instance and the state threaded through one pass.    *)
(* The context is a dict; its keys here are "DTSTART" and, per converter,  *)
(* (converter, "lines"), and the available-timezones key that finalize     *)
(* reads.  An absent "DTSTART" is None; an absent accumulator is << >> and *)
(* a present one is <<list>>; AVAILABLE_TZ says whether that key is set.   *)
(***************************************************************************)
NoLines == << >>

\* ContextDict(defaultdict(lambda: None)): a context without entries.
FreshContext == [DTSTART |-> None, lines |-> [f \in FieldNames |-> NoLines],
                 AVAILABLE_TZ |-> FALSE]

\* component_type(): no field set, empty extra, no extra params.  A field
\* holds the list of its values: a scalar field at most one, a list-valued
\* field (events, alarms) any number.  extra_params is the ordered mapping
\* from field name to parameters, as a sequence of <<key, value>> entries.
NewInstance(component_type) ==
    [type |-> component_type.cls, extra |-> << >>,
     values |-> [f \in FieldNames |-> << >>], extra_params |-> << >>]

Call(op, conv, item, ret, dt0, out, raised) ==
    [op |-> op, conv |-> conv.field, item |-> item, ret |-> ret,
     dt0 |-> dt0, out |-> out, raised |-> raised]

\* Container(name): a named container without items.
Container(name) == [name |-> name, items |-> << >>]

\* No output container (a populate pass builds none).
NoOutput == Container("")

\* shared: the pass works on the context object its caller passed; now: the
\* clock reading of the pass; sub: one record per member serialized by a
\* member converter.
PassState(instance, context) ==
    [instance |-> instance, context |-> context, output |-> NoOutput,
     err |-> "none", calls |-> << >>, shared |-> FALSE, now |-> None,
     sub |-> << >>]

Raise(st, e, call) == [st EXCEPT !.err = e, !.calls = @ \o <<call>>]

\* The list-valued fields (declared List[...]).
MultiValued == {"events", "alarms"}

\* set_or_append_value: a list-valued field accumulates, a scalar field is set.
set_or_append_value(instance, conv, value) ==
    IF conv.field \in MultiValued
    THEN [instance EXCEPT !.values[conv.field] = @ \o <<value>>]
    ELSE [instance EXCEPT !.values[conv.field] = <<value>>]

\* ComponentMeta.BY_TYPE[cls]
BY_TYPE(cls) == ComponentMeta(TypeOf(cls))

\* A child item that is a container, as the container argument of a load.
AsContainer(item) == [name |-> item.name, items |-> item.value]

\* get_type_from_action (ics/alarm): the alarm class for the sub-container's
\* ACTION line; the fallback class for an unknown or absent ACTION.
get_type_from_action(item) ==
    LET actions == SelectSeq(item.value, LAMBDA l : l.kind = "line" /\ l.name = "ACTION")
        action == IF actions = << >> THEN << >> ELSE actions[1].value
    IN  IF action = <<"TEXT", "DISPLAY">> THEN "DisplayAlarm"
        ELSE IF action = <<"TEXT", "AUDIO">> THEN "AudioAlarm"
        ELSE IF action = <<"TEXT", "EMAIL">> THEN "EmailAlarm"
        ELSE "NoneAlarm"

(***************************************************************************)
(* Converter.populate: the result is the new pass state and the returned   *)
(* bool.  i is the position of the item in its container.                  *)
(***************************************************************************)
RECURSIVE load_instance(_, _, _, _)

\* Component.from_container (ics/component): the load of the class's meta.
from_container(cls, c, context, now) == load_instance(BY_TYPE(cls), c, context, now)

\* The pass state after a nested load r made with this pass's context: the
\* child works on the same context object unless it created its own.
AfterNested(st, r) ==
    [st EXCEPT !.context = IF r.shared THEN r.context ELSE @]

\* Lines 29-31 of a member converter's populate once the nested load has
\* returned r: set_or_append_value and True, or the load's exception.
AfterLoad(conv, st, i, r) ==
    IF r.err # "none"
    THEN [st |-> Raise(AfterNested(st, r), r.err,
                       Call("populate", conv, i, FALSE, None, << >>, TRUE)),
          ret |-> FALSE]
    ELSE [st |-> [AfterNested(st, r) EXCEPT
                    !.instance = set_or_append_value(@, conv, r.instance),
                    !.calls = @ \o <<Call("populate", conv, i, TRUE,
                                          None, << >>, FALSE)>>],
          ret |-> TRUE]

\* MemberComponentConverter.populate (component.py lines 27-31)
MemberPopulate(conv, st, i, item) ==
    IF item.kind # "container"
    THEN [st |-> Raise(st, "AssertionError",
                       Call("populate", conv, i, FALSE, None, << >>, TRUE)),
          ret |-> FALSE]
    ELSE AfterLoad(conv, st, i,
                   load_instance(BY_TYPE(conv.meta), AsContainer(item),
                                 <<st.context>>, st.now))

\* AlarmMemberComponentConverter.populate (special.py lines 110-114)
AlarmPopulateNotConsumed(conv, st, i, item) ==
    IF item.kind # "container"
    THEN [st |-> Raise(st, "AssertionError",
                       Call("populate", conv, i, FALSE, None, << >>, TRUE)),
          ret |-> FALSE]
    ELSE [st |-> [st EXCEPT !.calls = @ \o <<Call("populate", conv, i, FALSE,
                                                  None, << >>, FALSE)>>],
          ret |-> FALSE]

AlarmPopulate(conv, st, i, item) ==
    IF item.kind # "container"
    THEN [st |-> Raise(st, "AssertionError",
                       Call("populate", conv, i, FALSE, None, << >>, TRUE)),
          ret |-> FALSE]
    ELSE AfterLoad(conv, st, i,
                   from_container(get_type_from_action(item), AsContainer(item),
                                  <<st.context>>, st.now))

\* RecurrenceConverter.populate: keep the raw line, parse nothing.
RecurrencePopulate(conv, st, i, item) ==
    IF item.kind # "line"
    THEN [st |-> Raise(st, "AssertionError",
                       Call("populate", conv, i, FALSE, None, << >>, TRUE)),
          ret |-> FALSE]
    ELSE LET old == st.context.lines[conv.field]
             lines == (IF old = NoLines THEN << >> ELSE old[1]) \o <<item>>
         IN  [st |-> [st EXCEPT
                        !.context.lines[conv.field] = <<lines>>,
                        !.calls = @ \o <<Call("populate", conv, i, TRUE,
                                              None, << >>, FALSE)>>],
              ret |-> TRUE]

\* PersonConverter.populate: never consumes.
PersonPopulate(conv, st, i, item) ==
    IF item.kind # "line"
    THEN [st |-> Raise(st, "AssertionError",
                       Call("populate", conv, i, FALSE, None, << >>, TRUE)),
          ret |-> FALSE]
    ELSE [st |-> [st EXCEPT !.calls = @ \o <<Call("populate", conv, i, FALSE,
                                                  None, << >>, FALSE)>>],
          ret |-> FALSE]

populate(conv, st, i, item) ==
    IF conv.kind = "Recurrence" THEN RecurrencePopulate(conv, st, i, item)
    ELSE IF conv.kind = "Member" THEN MemberPopulate(conv, st, i, item)
    ELSE IF conv.kind = "Alarm" THEN AlarmPopulate(conv, st, i, item)
    ELSE PersonPopulate(conv, st, i, item)

(***************************************************************************)
(* dateutil.rrule.rrulestr(lines_str, compatible=True) (external): one     *)
(* rule-set from the accumulated lines.  Every rule takes the start        *)
(* instant of the last DTSTART line; without one the parser chooses it     *)
(* (`now`).  In compatible mode a given DTSTART is also an inclusion date. *)
(***************************************************************************)
Rule(id, dtstart) == [id |-> id, dtstart |-> dtstart]

RuleSet(rr, ex, rd, exd) == [rrule |-> rr, exrule |-> ex, rdate |-> rd, exdate |-> exd]

Named(lines, n) == SelectSeq(lines, LAMBDA l : l.name = n)

MapSeq(s, Op(_)) == [i \in 1..Len(s) |-> Op(s[i])]

\* The instants of all the given lines, in order.
RECURSIVE AllDates(_)
AllDates(lines) ==
    IF lines = << >> THEN << >>
    ELSE DatetimeParse(Head(lines).value) \o AllDates(Tail(lines))

rrulestr(lines, now) ==
    LET dts == Named(lines, "DTSTART")
        given == IF dts = << >> THEN None ELSE DatetimeParse(Last(dts).value)[1]
        start == IF given # None THEN given ELSE now
        mk(l) == Rule(l.value[2], start)
    IN  RuleSet(MapSeq(Named(lines, "RRULE"), mk),
                MapSeq(Named(lines, "EXRULE"), mk),
                AllDates(Named(lines, "RDATE"))
                    \o (IF given # None THEN <<given>> ELSE << >>),
                AllDates(Named(lines, "EXDATE")))

\* sorted(dates)
InsertDate(d, s) ==
    LET k == Cardinality({i \in 1..Len(s) : s[i] <= d})
    IN  SubSeq(s, 1, k) \o <<d>> \o SubSeq(s, k + 1, Len(s))

RECURSIVE sorted(_)
sorted(s) == IF s = << >> THEN << >> ELSE InsertDate(Last(s), sorted(Front(s)))

\* more_itertools.unique_justseen: drop an element equal to its predecessor.
RECURSIVE unique_justseen(_)
unique_justseen(s) ==
    IF Len(s) <= 1 THEN s
    ELSE LET r == unique_justseen(Front(s))
         IN  IF Last(s) = Last(r) THEN r ELSE r \o <<Last(s)>>

DedupUnsorted(s) == unique_justseen(s)

\* list(more_itertools.unique_justseen(sorted(dates)))
Dedup(s) == unique_justseen(sorted(s))

(***************************************************************************)
(* Converter.finalize                                                      *)
(***************************************************************************)
\* RecurrenceConverter.finalize.  context.pop((self, "lines")) has no default:
\* it raises KeyError when populate stored no accumulator.
RecurrenceFinalizeKeepLines(conv, st, now) ==
    LET acc == st.context.lines[conv.field]
        call(raised) == Call("finalize", conv, 0, FALSE, None, << >>, raised)
    IN  IF acc = NoLines
        THEN Raise(st, "KeyError", call(TRUE))
        ELSE LET rs == rrulestr(acc[1], now)
                 value == [rs EXCEPT !.rdate = Dedup(rs.rdate),
                                     !.exdate = Dedup(rs.exdate)]
             IN  [st EXCEPT
                    !.instance = set_or_append_value(@, conv, value),
                    !.calls = @ \o <<call(FALSE)>>]

RecurrenceFinalize(conv, st, now) ==
    LET acc == st.context.lines[conv.field]
        call(raised) == Call("finalize", conv, 0, FALSE, None, << >>, raised)
    IN  IF acc = NoLines
        THEN Raise(st, "KeyError", call(TRUE))
        ELSE LET rs == rrulestr(acc[1], now)
                 value == [rs EXCEPT !.rdate = Dedup(rs.rdate),
                                     !.exdate = Dedup(rs.exdate)]
             IN  [st EXCEPT
                    !.context.lines[conv.field] = NoLines,
                    !.instance = set_or_append_value(@, conv, value),
                    !.calls = @ \o <<call(FALSE)>>]

\* PersonConverter and the member converters inherit
\* AttributeConverter.finalize, which stores nothing.
PersonFinalize(conv, st) ==
    [st EXCEPT !.calls = @ \o <<Call("finalize", conv, 0, FALSE, None, << >>, FALSE)>>]

finalize(conv, st, now) ==
    IF conv.kind = "Recurrence" THEN RecurrenceFinalize(conv, st, now)
    ELSE PersonFinalize(conv, st)

(***************************************************************************)
(* ComponentMeta._populate_attrs / populate_instance / load_instance       *)
(***************************************************************************)
\* The inner loop (lines 86-88): every claiming converter is offered the line.
RECURSIVE OfferFirstOnly(_, _, _, _, _, _)
OfferFirstOnly(convs, k, st, i, item, consumed) ==
    IF k > Len(convs) \/ st.err # "none" \/ consumed
    THEN [st |-> st, consumed |-> consumed]
    ELSE LET r == populate(convs[k], st, i, item)
         IN  OfferFirstOnly(convs, k + 1, r.st, i, item, consumed \/ r.ret)

RECURSIVE Offer(_, _, _, _, _, _)

\* Line 88 after populate returned r: `consumed = True` when it returned
\* true, then the next converter.
OfferNext(convs, k, i, item, consumed, r) ==
    Offer(convs, k + 1, r.st, i, item, consumed \/ r.ret)

Offer(convs, k, st, i, item, consumed) ==
    IF k > Len(convs) \/ st.err # "none"
    THEN [st |-> st, consumed |-> consumed]
    ELSE OfferNext(convs, k, i, item, consumed, populate(convs[k], st, i, item))

\* One iteration of the outer loop (lines 84-90).
AppendExtraAlways(st, item, consumed) ==
    [st EXCEPT !.instance.extra = @ \o <<item>>]

AppendExtra(st, item, consumed) ==
    IF consumed THEN st ELSE [st EXCEPT !.instance.extra = @ \o <<item>>]

\* Lines 89-90 after the inner loop returned r.
AfterOffer(r, item) ==
    IF r.st.err # "none" THEN r.st ELSE AppendExtra(r.st, item, r.consumed)

PopulateLine(m, st, i, item) ==
    AfterOffer(Offer(LookupGet(m, item.name), 1, st, i, item, FALSE), item)

RECURSIVE PopulateLines(_, _, _, _)
PopulateLines(m, st, items, i) ==
    IF i > Len(items) \/ st.err # "none" THEN st
    ELSE PopulateLines(m, PopulateLine(m, st, i, items[i]), items, i + 1)

\* The finalize loop (lines 92-93) over the converters from position k on.
RECURSIVE FinalizeFrom(_, _, _, _)
FinalizeFrom(convs, k, st, now) ==
    IF k > Len(convs) \/ st.err # "none" THEN st
    ELSE FinalizeFrom(convs, k + 1, finalize(convs[k], st, now), now)

Reverse(s) == [i \in 1..Len(s) |-> s[Len(s) + 1 - i]]

FinalizeReversed(m, st, now) == FinalizeFrom(Reverse(m.converters), 1, st, now)

FinalizeAll(m, st, now) == FinalizeFrom(m.converters, 1, st, now)

_populate_attrs(m, st, container, now) ==
    FinalizeAll(m, PopulateLines(m, st, container.items, 1), now)

\* `context` is the caller's argument: << >> for None, <<ctx>> for a dict.
IsEmptyContext(c) == c = FreshContext

PopulateAnyName(m, instance, container, context, now) ==
    LET replaced == context = << >> \/ IsEmptyContext(context[1])
        ctx == IF replaced THEN FreshContext ELSE context[1]
    IN  _populate_attrs(m, [PassState(instance, ctx) EXCEPT
                               !.shared = ~replaced, !.now = now],
                        container, now)

populate_instance(m, instance, container, context, now) ==
    IF container.name # m.component_type.NAME
    THEN [PassState(instance, IF context = << >> THEN FreshContext ELSE context[1])
            EXCEPT !.err = "ValueError", !.shared = context # << >>]
    ELSE LET replaced == context = << >> \/ IsEmptyContext(context[1])
             ctx == IF replaced THEN FreshContext ELSE context[1]
         IN  _populate_attrs(m, [PassState(instance, ctx) EXCEPT
                                    !.shared = ~replaced, !.now = now],
                             container, now)

load_instance(m, container, context, now) ==
    populate_instance(m, NewInstance(m.component_type), container, context, now)

(***************************************************************************)
(* Converter.serialize                                                     *)
(***************************************************************************)
\* The DTSTART loop of RecurrenceConverter.serialize (lines 58-67) over
\* itertools.chain(value._rrule, value._exrule).  acc.dt is
\* context["DTSTART"], acc.out the lines appended so far.
RECURSIVE DtstartLoopNoCheck(_, _, _)
DtstartLoopNoCheck(rules, k, acc) ==
    IF k > Len(rules) THEN acc
    ELSE IF rules[k].dtstart = None \/ acc.dt # None
    THEN DtstartLoopNoCheck(rules, k + 1, acc)
    ELSE DtstartLoopNoCheck(rules, k + 1,
            [acc EXCEPT !.dt = rules[k].dtstart,
                        !.out = @ \o <<ContentLine("DTSTART",
                                          DatetimeSerialize(rules[k].dtstart))>>])

RECURSIVE DtstartLoopEvery(_, _, _)
DtstartLoopEvery(rules, k, acc) ==
    IF k > Len(rules) \/ acc.err # "none" THEN acc
    ELSE IF rules[k].dtstart = None
    THEN DtstartLoopEvery(rules, k + 1, acc)
    ELSE IF acc.dt # None /\ acc.dt # rules[k].dtstart
    THEN [acc EXCEPT !.err = "ValueError"]
    ELSE DtstartLoopEvery(rules, k + 1,
            [acc EXCEPT !.dt = rules[k].dtstart,
                        !.out = @ \o <<ContentLine("DTSTART",
                                          DatetimeSerialize(rules[k].dtstart))>>])

RECURSIVE DtstartLoop(_, _, _)
DtstartLoop(rules, k, acc) ==
    IF k > Len(rules) \/ acc.err # "none" THEN acc
    ELSE IF rules[k].dtstart = None
    THEN DtstartLoop(rules, k + 1, acc)
    ELSE IF acc.dt # None
    THEN IF acc.dt # rules[k].dtstart
         THEN [acc EXCEPT !.err = "ValueError"]
         ELSE DtstartLoop(rules, k + 1, acc)
    ELSE DtstartLoop(rules, k + 1,
            [acc EXCEPT !.dt = rules[k].dtstart,
                        !.out = @ \o <<ContentLine("DTSTART",
                                          DatetimeSerialize(rules[k].dtstart))>>])

RRuleLine(rule) == ContentLine("RRULE", RecurText(rule))
ExRuleLine(rule) == ContentLine("EXRULE", RecurText(rule))
RDateLine(d) == ContentLine("RDATE", DatetimeSerialize(d))
ExDateLine(d) == ContentLine("EXDATE", DatetimeSerialize(d))

\* Lines 69-78: the rule lines, then the sorted, collapsed date lines.
RuleAndDateLines(value) ==
    MapSeq(value.rrule, RRuleLine) \o MapSeq(value.exrule, ExRuleLine)
        \o MapSeq(unique_justseen(sorted(value.rdate)), RDateLine)
        \o MapSeq(unique_justseen(sorted(value.exdate)), ExDateLine)

RecurrenceSerialize(conv, st) ==
    LET stored == st.instance.values[conv.field]
        dt0 == st.context.DTSTART
        call(out, raised) == Call("serialize", conv, 0, FALSE, dt0, out, raised)
    IN  IF stored = << >>
        THEN Raise(st, "AssertionError", call(<< >>, TRUE))
        ELSE LET value == stored[1]
                 acc == DtstartLoop(value.rrule \o value.exrule, 1,
                                    [dt |-> dt0, out |-> << >>, err |-> "none"])
             IN  IF acc.err # "none"
                 THEN [st EXCEPT !.context.DTSTART = acc.dt,
                                 !.output.items = @ \o acc.out,
                                 !.err = acc.err,
                                 !.calls = @ \o <<call(acc.out, TRUE)>>]
                 ELSE LET out == acc.out \o RuleAndDateLines(value)
                      IN  [st EXCEPT !.context.DTSTART = acc.dt,
                                     !.output.items = @ \o out,
                                     !.calls = @ \o <<call(out, FALSE)>>]

\* PersonConverter.serialize: pass.
PersonSerialize(conv, st) ==
    [st EXCEPT !.calls = @ \o <<Call("serialize", conv, 0, FALSE,
                                     st.context.DTSTART, << >>, FALSE)>>]

RECURSIVE serialize_toplevel(_, _, _)

\* Component.to_container (ics/component): serialize_toplevel of the meta
\* registered for the concrete class of the value.
to_container(value, context) == serialize_toplevel(BY_TYPE(value.type), value, context)

\* AttributeConverter.get_extra_params (ics/converter/base.py): the extra
\* params the component holds for the converter's field.
get_extra_params(conv, component) ==
    SelectSeq(component.extra_params, LAMBDA e : e[1] = conv.field)

\* The loop `for value in self.get_value_list(parent)` of both member
\* converters: acc.st is the pass state, acc.out the sub-containers
\* appended so far.  Every member is recorded in st.sub with the DTSTART the
\* context holds as its serialization starts.
RECURSIVE ValueLoop(_, _, _, _)

\* output.append(value.to_container(context)) once to_container returned r.
AfterMember(conv, values, k, acc, r) ==
    LET rec == [conv |-> conv.field, k |-> k, dt0 |-> acc.st.context.DTSTART,
                shared |-> r.shared, calls |-> r.calls, err |-> r.err]
        st1 == [AfterNested(acc.st, r) EXCEPT !.sub = @ \o <<rec>>]
    IN  IF r.err # "none"
        THEN [st |-> [st1 EXCEPT !.err = r.err], out |-> acc.out]
        ELSE ValueLoop(conv, values, k + 1,
                [st |-> st1,
                 out |-> acc.out \o <<SubContainer(r.output.name, r.output.items)>>])

ValueLoop(conv, values, k, acc) ==
    IF k > Len(values) \/ acc.st.err # "none" THEN acc
    ELSE AfterMember(conv, values, k, acc,
                     to_container(values[k], <<acc.st.context>>))

\* The end of a member converter's serialize once the loop returned acc;
\* `pop` says whether DTSTART is removed from the context (line 41).
AfterLoop(conv, st, acc, pop) ==
    LET call(out, raised) ==
            Call("serialize", conv, 0, FALSE, st.context.DTSTART, out, raised)
    IN  IF acc.st.err # "none"
        THEN [acc.st EXCEPT !.output.items = @ \o acc.out,
                            !.calls = @ \o <<call(acc.out, TRUE)>>]
        ELSE [acc.st EXCEPT !.context.DTSTART = IF pop THEN None ELSE @,
                            !.output.items = @ \o acc.out,
                            !.calls = @ \o <<call(acc.out, FALSE)>>]

\* MemberComponentConverter.serialize (component.py lines 33-41): DTSTART is
\* removed from the context once, after the loop.
MemberSerializeNoCheck(conv, st) ==
    AfterLoop(conv, st,
              ValueLoop(conv, st.instance.values[conv.field], 1,
                        [st |-> st, out |-> << >>]),
              TRUE)

MemberSerialize(conv, st) ==
    IF get_extra_params(conv, st.instance) # << >>
    THEN Raise(st, "ValueError",
               Call("serialize", conv, 0, FALSE, st.context.DTSTART, << >>, TRUE))
    ELSE AfterLoop(conv, st,
                   ValueLoop(conv, st.instance.values[conv.field], 1,
                             [st |-> st, out |-> << >>]),
                   TRUE)

\* AlarmMemberComponentConverter.serialize (special.py lines 116-122): the
\* same, without the removal of DTSTART.
AlarmSerialize(conv, st) ==
    IF get_extra_params(conv, st.instance) # << >>
    THEN Raise(st, "ValueError",
               Call("serialize", conv, 0, FALSE, st.context.DTSTART, << >>, TRUE))
    ELSE AfterLoop(conv, st,
                   ValueLoop(conv, st.instance.values[conv.field], 1,
                             [st |-> st, out |-> << >>]),
                   FALSE)

serialize(conv, st) ==
    IF conv.kind = "Recurrence" THEN RecurrenceSerialize(conv, st)
    ELSE IF conv.kind = "Member" THEN MemberSerialize(conv, st)
    ELSE IF conv.kind = "Alarm" THEN AlarmSerialize(conv, st)
    ELSE PersonSerialize(conv, st)

(***************************************************************************)
(* ComponentMeta.serialize_toplevel / _serialize_attrs                     *)
(***************************************************************************)
RECURSIVE SerializeFrom(_, _, _)
SerializeFrom(convs, k, st) ==
    IF k > Len(convs) \/ st.err # "none" THEN st
    ELSE SerializeFrom(convs, k + 1, serialize(convs[k], st))

\* container.extend(component.extra) (line 106) after the converter loop.
ExtendExtra(r) ==
    IF r.err # "none" THEN r ELSE [r EXCEPT !.output.items = @ \o r.instance.extra]

ExtrasFirst(m, st) ==
    LET r == SerializeFrom(m.converters, 1, st)
    IN  IF r.err # "none" THEN r
        ELSE [r EXCEPT !.output.items = r.instance.extra \o @]

_serialize_attrs(m, st) == ExtendExtra(SerializeFrom(m.converters, 1, st))

\* The result's `output` is the returned container.
serialize_toplevel(m, component, context) ==
    LET replaced == context = << >> \/ IsEmptyContext(context[1])
        ctx == IF replaced THEN FreshContext ELSE context[1]
    IN  _serialize_attrs(m, [PassState(component, ctx) EXCEPT
                                !.output = Container(m.component_type.NAME),
                                !.shared = ~replaced])

(***************************************************************************)
(* MutablePseudoComponent and ImmutableComponentMeta (component.py lines   *)
(* 109-170).  A Python object is the function from the names in its        *)
(* instance dictionary to their values.  An attribute access yields        *)
(* [ok |-> TRUE, value |-> v] or [ok |-> FALSE, err |-> exception].        *)
(***************************************************************************)
\* attr.fields(comp): name, init flag and default of every declared field.
\* A default is <<"NOTHING">>, <<"value", v>> or <<"Factory", takes_self>>.
Decl(n, init, default) == [name |-> n, init |-> init, default |-> default]

attr_fields(comp) ==
    IF "decls" \in DOMAIN comp THEN comp.decls
    ELSE [i \in 1..Len(comp.fields) |->
              Decl(comp.fields[i].name, TRUE, <<"value", None>>)]

\* The result of a default factory: factory(self) or factory().
FactoryResult(n, takes_self) ==
    [factory |-> n, arg |-> IF takes_self THEN "self" ELSE ""]

\* The loop of __init__ (lines 115-125) over the fields from position k on.
RECURSIVE InitData(_, _, _)
InitData(fields, k, data) ==
    IF k > Len(fields) THEN data
    ELSE LET field == fields[k]
             add(v) == [n \in DOMAIN data \cup {field.name} |->
                           IF n = field.name THEN v ELSE data[n]]
         IN  InitData(fields, k + 1,
                IF ~field.init THEN data
                ELSE IF field.default[1] = "Factory"
                THEN add(FactoryResult(field.name, field.default[2]))
                ELSE IF field.default[1] # "NOTHING" THEN add(field.default[2])
                ELSE data)

Ok(v) == [ok |-> TRUE, value |-> v]
Fail(e) == [ok |-> FALSE, err |-> e]

\* MutablePseudoComponent.__init__: the four attributes are stored with
\* object.__setattr__; the backing map under "_MutablePseudoComponent__data".
MutablePseudoComponent(comp) ==
    [n \in {"NAME", "extra", "extra_params", "_MutablePseudoComponent__data"} |->
        IF n = "NAME" THEN comp.NAME
        ELSE IF n = "extra" THEN Container(comp.NAME)
        ELSE IF n = "extra_params" THEN << >>
        ELSE InitData(attr_fields(comp), 1, << >>)]

\* Reading self.<name>: the instance dictionary first; a name it does not
\* hold goes to __getattr__ (lines 128-129), which reads
\* self.MutablePseudoComponent_data, an attribute access of its own, and
\* then indexes the map.  depth counts the nested calls.
RECURSIVE GetAttr(_, _, _)
GetAttr(self, name, depth) ==
    IF name \in DOMAIN self THEN Ok(self[name])
    ELSE IF depth >= RecursionLimit THEN Fail("RecursionError")
    ELSE LET data == GetAttr(self, "MutablePseudoComponent_data", depth + 1)
         IN  IF ~data.ok THEN data
             ELSE IF name \in DOMAIN data.value THEN Ok(data.value[name])
             ELSE Fail("KeyError")

\* __setattr__ (lines 131-133): the result is the object and the exception.
SetAttr(self, name, value) ==
    IF name \in {"NAME", "extra", "extra_params"}
    THEN [self |-> self, err |-> "AssertionError"]
    ELSE LET data == GetAttr(self, "MutablePseudoComponent_data", 1)
         IN  IF ~data.ok THEN [self |-> self, err |-> data.err]
             ELSE [self |-> [self EXCEPT !["_MutablePseudoComponent__data"] =
                               [n \in DOMAIN data.value \cup {name} |->
                                   IF n = name THEN value ELSE data.value[n]]],
                   err |-> "none"]

\* The pseudo-instance as the component a populate pass works on.
PseudoInstance(pseudo) ==
    [type |-> "MutablePseudoComponent", extra |-> pseudo["extra"].items,
     values |-> [f \in FieldNames |-> << >>],
     extra_params |-> pseudo["extra_params"]]

\* ImmutableComponentMeta.load_instance (lines 164-170).  The result is the
\* pass state of populate_instance, with the real instance in place of the
\* pseudo-instance when its construction is reached.
ImmutableLoadInstance(m, container, context, now) ==
    LET pseudo == MutablePseudoComponent(m.component_type)
        r == populate_instance(m, PseudoInstance(pseudo), container, context, now)
        data == GetAttr(pseudo, "MutablePseudoComponent_data", 0)
    IN  IF r.err # "none" THEN r
        ELSE IF ~data.ok THEN [r EXCEPT !.err = data.err]
        ELSE [r EXCEPT
                !.instance = [type |-> m.component_type.cls,
                              values |-> [f \in FieldNames |->
                                  IF f \in DOMAIN data.value
                                  THEN <<data.value[f]>> ELSE << >>],
                              extra |-> r.instance.extra,
                              extra_params |-> r.instance.extra_params],
                !.calls = @ \o <<[op |-> "construct", conv |-> "", item |-> 0,
                                  ret |-> FALSE, dt0 |-> None, out |-> << >>,
                                  raised |-> FALSE]>>]

(***************************************************************************)
(* The bootstrap (ics/__init__.py lines 14-39) and the process-wide         *)
(* registries.  A registry maps a key to an object; a class is named, an    *)
(* instance made at run time has a number (its identity), 0 is "no entry".  *)
(* imported is the set of modules whose top level has run (sys.modules).    *)
(***************************************************************************)
\* The modules the body imports, in order (lines 17-28, 36).
BootModules ==
    << "ics.valuetype.base", "ics.valuetype.generic", "ics.valuetype.text",
       "ics.valuetype.datetime", "ics.valuetype.special",
       "ics.converter.base", "ics.converter.value", "ics.converter.special",
       "ics.converter.timespan", "ics.converter.timezone" >>

ValueModules == {BootModules[i] : i \in 1..5}

AttributeKeys == {"rruleset", "Person", "Attendee", "Organizer"}

AlarmKeys == <<"BaseAlarm", "AudioAlarm", "CustomAlarm", "DisplayAlarm",
               "EmailAlarm", "NoneAlarm">>

NoRegistries ==
    [ValueConverter |-> [k \in ValueModules |-> ""],
     AttributeConverter |-> [k \in AttributeKeys |-> ""],
     BY_TYPE |-> [k \in SeqToSet(AlarmKeys) \cup MemberClasses |-> 0]]

\* A process before any import: b.registries, b.imported, and b.objects, the
\* number of meta objects made so far.
NoBoot == [registries |-> NoRegistries, imported |-> {}, objects |-> 0]

\* BY_TYPE[key] = <a new meta object>
RegisterNew(b, key) ==
    [b EXCEPT !.objects = @ + 1, !.registries.BY_TYPE[key] = b.objects + 1]

RECURSIVE RegisterAlarms(_, _)
RegisterAlarms(b, k) ==
    IF k > Len(AlarmKeys) THEN b
    ELSE RegisterAlarms(RegisterNew(b, AlarmKeys[k]), k + 1)

\* The top level of a module: a value type module registers its converter
\* classes; ics.converter.special registers the converter classes (lines 81,
\* 100-102) and one AlarmMeta object per alarm class (lines 130-135).
ModuleTopLevel(b, mod) ==
    IF mod \in ValueModules
    THEN [b EXCEPT !.registries.ValueConverter[mod] = mod]
    ELSE IF mod = "ics.converter.special"
    THEN RegisterAlarms(
            [b EXCEPT !.registries.AttributeConverter =
                [k \in AttributeKeys |->
                    IF k = "rruleset" THEN "RecurrenceConverter" ELSE "PersonConverter"]],
            1)
    ELSE b

\* import mod: the top level runs once per process.
Import(b, mod) ==
    IF mod \in b.imported THEN b
    ELSE [ModuleTopLevel(b, mod) EXCEPT !.imported = @ \cup {mod}]

RECURSIVE ImportFrom(_, _, _)
ImportFrom(b, mods, k) ==
    IF k > Len(mods) THEN b ELSE ImportFrom(Import(b, mods[k]), mods, k + 1)

\* lambda: None (line 39)
NoopBody(b) == b

\* The body of the function defined on line 14 (lines 17-36).
InitializeBody(b) ==
    Import(RegisterNew(RegisterNew(ImportFrom(b, BootModules, 1), "Event"), "Todo"),
           "ics.converter.calendar")

(***************************************************************************)
(* Calendar (src/ics/calendar.py).  parse.string_to_container (external)   *)
(* yields the list of top-level containers of the text.                    *)
(***************************************************************************)
\* A Calendar object: creator is << >> while the attribute is unset;
\* populated lists the containers populate was called with; source is the
\* parsed text given to the constructor (<< >> when string is None).
EmptyCalendar(source) ==
    [creator |-> << >>, err |-> "none", populated |-> << >>, source |-> source]

NewCalendar == EmptyCalendar(<< >>)

\* filter(lambda x: x.name == 'PRODID', container)
Creators(c) == SelectSeq(c.items, LAMBDA x : x.name = "PRODID")

\* Calendar.populate.  `filter` yields a list under Python 2 and an iterator
\* under Python 3, where len() of it raises TypeError: lazy says which.
CalendarPopulate(calendar, c, lazy) ==
    LET creators == Creators(c)
        called == [calendar EXCEPT !.populated = @ \o <<c>>]
    IN  IF lazy THEN [called EXCEPT !.err = "TypeError"]
        ELSE IF Len(creators) # 1 THEN [called EXCEPT !.err = "ParseError"]
        ELSE [called EXCEPT !.creator = <<creators[1].value>>]

\* Calendar.__init__(string): `given` is string != None and `doc` the list of
\* top-level containers parsed from it.
CalendarInitAnyCount(given, doc, lazy) ==
    IF ~given THEN NewCalendar
    ELSE IF Len(doc) = 0
    THEN [EmptyCalendar(<<doc>>) EXCEPT !.err = "NotImplementedError"]
    ELSE CalendarPopulate(EmptyCalendar(<<doc>>), doc[1], lazy)

CalendarInit(given, doc, lazy) ==
    IF ~given THEN NewCalendar
    ELSE IF Len(doc) # 1
    THEN [EmptyCalendar(<<doc>>) EXCEPT !.err = "NotImplementedError"]
    ELSE CalendarPopulate(EmptyCalendar(<<doc>>), doc[1], lazy)

(***************************************************************************)
(* Inputs                                                                  *)
(***************************************************************************)
\* Child items of a component container: unclaimed lines, an unclaimed
\* nested container, and the five recurrence lines.
Items ==
    { ContentLine("X-A", Text(1)), SubContainer("X-COMP", Text(1)),
      ContentLine("RRULE", <<"RECUR", 1>>), ContentLine("EXRULE", <<"RECUR", 1>>) }
    \cup { ContentLine("DTSTART", DatetimeSerialize(d)) : d \in Dates }
    \cup { ContentLine("RDATE", DateListText(ds)) : ds \in {<<1>>, <<2, 1, 2>>} }
    \cup { ContentLine("EXDATE", DateListText(<<2, 1, 2>>)) }

Containers(name) ==
    { [name |-> name, items |-> s] : s \in SeqsUpTo(Items, MaxItems) }
    \cup { [name |-> "VOTHER", items |-> s] : s \in SeqsUpTo({ContentLine("X-A", Text(1))}, 1) }

\* Rule-sets a caller builds directly.
Rules == { Rule(1, d) : d \in {None} \cup Dates }

RuleSets ==
    { RuleSet(rr, ex, rd, exd) :
        rr \in SeqsUpTo(Rules, MaxRules), ex \in SeqsUpTo(Rules, 1),
        rd \in {<< >>, <<2, 1>>, <<1, 2, 1>>}, exd \in {<< >>, <<2, 1, 2>>} }

SmallRuleSets ==
    { RuleSet(rr, << >>, << >>, << >>) : rr \in {<< >>, <<Rule(1, 2)>>} }

\* A context a caller passes to serialize_toplevel or load_instance: a dict
\* that already records a DTSTART, one that holds the available timezones,
\* and a dict without entries (<< >> stands for no context argument).
CallerContexts == { << [FreshContext EXCEPT !.DTSTART = 1] >>,
                    << [FreshContext EXCEPT !.AVAILABLE_TZ = TRUE] >>,
                    << FreshContext >> }

LoadContexts == { << [FreshContext EXCEPT !.AVAILABLE_TZ = TRUE] >>,
                  << FreshContext >> }

\* Event sub-containers of a calendar and alarm sub-containers of an event.
EventMembers ==
    { SubContainer("VEVENT", s) :
        s \in { << ContentLine("RRULE", <<"RECUR", 1>>) >>,
                << ContentLine("DTSTART", DatetimeSerialize(1)),
                   ContentLine("RRULE", <<"RECUR", 1>>) >>,
                << ContentLine("RDATE", DateListText(<<1>>)),
                   ContentLine("X-A", Text(1)) >>,
                << ContentLine("X-A", Text(1)) >> } }

AlarmMembers ==
    { SubContainer("VALARM", s) :
        s \in { << ContentLine("ACTION", Text("DISPLAY")), ContentLine("X-A", Text(1)) >>,
                << ContentLine("ACTION", Text("AUDIO")) >>,
                << ContentLine("ACTION", Text("X-OTHER")), ContentLine("X-A", Text(1)) >>,
                << ContentLine("X-A", Text(1)) >> } }

\* Containers with member sub-containers, by component type; for a type
\* without member fields a short container of lines.  The last one is a
\* container of another name.
TreeContainers(t) ==
    (IF t.cls = "Calendar"
     THEN { [name |-> t.NAME, items |-> s] :
              s \in SeqsUpTo(EventMembers \cup {ContentLine("X-A", Text(1))}, MaxMembers) }
     ELSE IF t.cls = "Event"
     THEN { [name |-> t.NAME, items |-> <<ContentLine("RRULE", <<"RECUR", 1>>)>> \o s] :
              s \in SeqsUpTo(AlarmMembers, MaxMembers) }
     ELSE { [name |-> t.NAME, items |-> s] :
              s \in SeqsUpTo({ContentLine("RRULE", <<"RECUR", 1>>),
                              ContentLine("X-A", Text(1))}, 1) })
    \cup { [name |-> "VOTHER", items |-> <<ContentLine("RRULE", <<"RECUR", 1>>)>>] }

\* Member components a caller builds: events with one repeating rule, alarms.
EventInstances ==
    { [NewInstance(TypeOf("Event")) EXCEPT
          !.values["rrule"] = << RuleSet(<<Rule(1, d)>>, << >>, << >>, << >>) >>] :
        d \in {None} \cup Dates }
    \cup { [NewInstance(TypeOf("Event")) EXCEPT
              !.values["rrule"] = << RuleSet(<<Rule(1, None)>>, << >>, << >>, << >>) >>,
              !.extra = << ContentLine("X-A", Text(1)) >>] }

AlarmInstances ==
    { [NewInstance(TypeOf(c)) EXCEPT !.extra = ex] :
        c \in {"DisplayAlarm", "NoneAlarm"},
        ex \in { << >>, << ContentLine("X-A", Text(1)) >> } }

\* Extra params a component may hold for a field.
ExtraParams(f) == { << >>, << <<f, Text(1)>> >> }

\* A component type as MutablePseudoComponent sees it: a field without
\* default, one with a default value, one with a plain factory, one with a
\* factory taking self, and one that is no constructor argument.
PseudoTypes ==
    { [cls |-> "Timezone", NAME |-> "VTIMEZONE", fields |-> << >>,
       decls |-> << Decl("tzid", TRUE, <<"NOTHING">>),
                    Decl("offset", TRUE, <<"value", 1>>),
                    Decl("uid", TRUE, <<"Factory", FALSE>>),
                    Decl("created", TRUE, <<"Factory", TRUE>>),
                    Decl("cache", FALSE, <<"value", 1>>) >>] }

DeclNames(comp) == {attr_fields(comp)[i].name : i \in 1..Len(attr_fields(comp))}

CalendarItems == { ContentLine("PRODID", Text(1)), ContentLine("PRODID", Text(2)),
                   ContentLine("X-A", Text(1)) }

CalendarContainers ==
    { [name |-> "VCALENDAR", items |-> s] : s \in SeqsUpTo(CalendarItems, MaxItems) }

\* Parsed documents: only the first container's content varies.
Documents ==
    { [i \in 1..n |-> IF i = 1 THEN c ELSE [name |-> "VCALENDAR", items |-> << >>]] :
        n \in 0..MaxDocs, c \in CalendarContainers }

(***************************************************************************)
(* State machine                                                           *)
(***************************************************************************)
VARIABLES
    meta,       \* the ComponentMeta of the component type in use
    pc,         \* "idle", "loaded", "built", "serialized", "load_failed",
                \* "serialize_failed", "calendar"
    container,  \* the container of the last load_instance
    instance,   \* the component instance
    context,    \* the context as the last pass left it
    entry,      \* the context argument of the last serialize_toplevel
    output,     \* the container serialize_toplevel built
    err,        \* exception that ended the last pass, or "none"
    calls,      \* converter calls of the last pass, in order
    pass,       \* 0 before any load, 1 after the first, 2 after the reload
    extra0,     \* instance.extra as the first load left it
    calendar,   \* the Calendar object
    caller,     \* the context object the caller passed, as the pass left it
    sub,        \* the member serializations of the last serialize pass
    pseudo,     \* a MutablePseudoComponent (<< >> before one is made)
    got,        \* the last attribute read or write on it and its outcome
    assigned,   \* per field, the value last written to it (<< >>: none)
    boot,       \* the registries, the imported modules, the objects made
    binding,    \* what the module global initialize_converters is bound to
    booted      \* calls of initialize_converters made; registries after the first

pseudoVars == <<pseudo, got, assigned>>

bootVars == <<boot, binding, booted>>

vars == <<meta, pc, container, instance, context, entry, output, err, calls,
          pass, extra0, calendar, caller, sub, pseudoVars, bootVars>>

Init ==
    /\ meta \in {ComponentMeta(t) : t \in ComponentTypes}
    /\ pc = "idle"
    /\ container = [name |-> meta.component_type.NAME, items |-> << >>]
    /\ instance = NewInstance(meta.component_type)
    /\ context = FreshContext
    /\ entry = << >>
    /\ output = NoOutput
    /\ err = "none"
    /\ calls = << >>
    /\ pass = 0
    /\ extra0 = << >>
    /\ calendar = NewCalendar
    /\ caller = << >>
    /\ sub = << >>
    /\ pseudo = << >>
    /\ got = << >>
    /\ assigned = << >>
    /\ boot = NoBoot
    /\ binding = "function"
    /\ booted = [n |-> 0, first |-> << >>]

\* A caller loads a container with a fresh context.
LoadInstance ==
    /\ pc = "idle"
    /\ \E c \in Containers(meta.component_type.NAME), now \in {None} \cup Dates :
         \E r \in {load_instance(meta, c, << >>, now)} :
             /\ container' = c
             /\ instance' = r.instance
             /\ context' = r.context
             /\ err' = r.err
             /\ calls' = r.calls
             /\ pc' = IF r.err = "none" THEN "loaded" ELSE "load_failed"
    /\ pass' = 1
    /\ UNCHANGED <<meta, entry, output, extra0, calendar, caller, sub, pseudoVars, bootVars>>

\* The context object of the caller after a pass started with argument ctx.
CallerAfter(ctx, r) == IF r.shared THEN <<r.context>> ELSE ctx

\* A caller loads a container, passing a context of its own.
LoadWithContext ==
    /\ pc = "idle"
    /\ \E c \in TreeContainers(meta.component_type), ctx \in LoadContexts,
          now \in {None} \cup Dates :
         \E r \in {load_instance(meta, c, ctx, now)} :
             /\ container' = c
             /\ entry' = ctx
             /\ instance' = r.instance
             /\ context' = r.context
             /\ caller' = CallerAfter(ctx, r)
             /\ err' = r.err
             /\ calls' = r.calls
             /\ pc' = IF r.err = "none" THEN "loaded" ELSE "load_failed"
    /\ pass' = 1
    /\ UNCHANGED <<meta, output, extra0, calendar, sub, pseudoVars, bootVars>>

\* A caller builds a component directly, giving every rule-set field a value.
Construct ==
    /\ pc = "idle"
    /\ \E rs \in RuleSets, rs2 \in SmallRuleSets,
          ex \in SeqsUpTo({ContentLine("X-A", Text(1))}, 1) :
         instance' = [type |-> meta.component_type.cls, extra |-> ex,
                      extra_params |-> << >>,
                      values |-> [f \in FieldNames |->
                          IF \E i \in 1..Len(meta.converters) :
                                 /\ meta.converters[i].field = f
                                 /\ meta.converters[i].kind = "Recurrence"
                          THEN IF f = "rrule" THEN <<rs>> ELSE <<rs2>>
                          ELSE << >>]]
    /\ pc' = "built"
    /\ UNCHANGED <<meta, container, context, entry, output, err, calls, pass,
                   extra0, calendar, caller, sub, pseudoVars, bootVars>>

HasMemberField ==
    \E i \in 1..Len(meta.converters) : meta.converters[i].kind \in {"Member", "Alarm"}

\* A caller builds a component with member components: a calendar with
\* events, an event with alarms; it may hold extra params for that field.
ConstructTree ==
    /\ pc = "idle"
    /\ HasMemberField
    /\ \E evs \in SeqsUpTo(EventInstances, MaxMembers),
          als \in SeqsUpTo(AlarmInstances, MaxMembers),
          rs \in SmallRuleSets,
          xp \in ExtraParams("events") \cup ExtraParams("alarms") :
         instance' =
            IF meta.component_type.cls = "Calendar"
            THEN [NewInstance(meta.component_type) EXCEPT
                    !.values["events"] = evs, !.extra_params = xp]
            ELSE [NewInstance(meta.component_type) EXCEPT
                    !.values["rrule"] = <<rs>>,
                    !.values["alarms"] = als, !.extra_params = xp]
    /\ pc' = "built"
    /\ UNCHANGED <<meta, container, context, entry, output, err, calls, pass,
                   extra0, calendar, caller, sub, pseudoVars, bootVars>>

Serialize(ctx) ==
    /\ \E r \in {serialize_toplevel(meta, instance, ctx)} :
         /\ entry' = ctx
         /\ output' = r.output
         /\ context' = r.context
         /\ caller' = CallerAfter(ctx, r)
         /\ sub' = r.sub
         /\ err' = r.err
         /\ calls' = r.calls
         /\ pc' = IF r.err = "none" THEN "serialized" ELSE "serialize_failed"
    /\ UNCHANGED <<meta, container, instance, pass, extra0, calendar, pseudoVars, bootVars>>

\* serialize_toplevel(component): no context argument.
SerializeToplevel ==
    /\ pc \in {"loaded", "built"}
    /\ pass <= 1
    /\ Serialize(<< >>)

\* serialize_toplevel(component, context) on a component the caller built.
SerializeWithContext ==
    /\ pc = "built"
    /\ \E ctx \in CallerContexts : Serialize(ctx)

\* The serialized container of a loaded instance is loaded again.
Reload ==
    /\ pc = "serialized"
    /\ pass = 1
    /\ \E now \in {None} \cup Dates :
         \E r \in {load_instance(meta, output, << >>, now)} :
             /\ container' = output
             /\ instance' = r.instance
             /\ context' = r.context
             /\ err' = r.err
             /\ calls' = r.calls
             /\ pc' = IF r.err = "none" THEN "loaded" ELSE "load_failed"
    /\ pass' = 2
    /\ extra0' = instance.extra
    /\ UNCHANGED <<meta, entry, output, calendar, caller, sub, pseudoVars, bootVars>>

\* ImmutableComponentMeta(component_type).load_instance(container), for a
\* type whose converters store no value during the pass.
ImmutableLoad ==
    /\ pc = "idle"
    /\ KindsOf(meta) \subseteq {"Person"}
    /\ \E c \in TreeContainers(meta.component_type), now \in {None} \cup Dates :
         \E r \in {ImmutableLoadInstance(meta, c, << >>, now)} :
             /\ container' = c
             /\ instance' = r.instance
             /\ context' = r.context
             /\ err' = r.err
             /\ calls' = r.calls
             /\ pc' = IF r.err = "none" THEN "immutable_loaded" ELSE "immutable_failed"
    /\ UNCHANGED <<meta, entry, output, pass, extra0, calendar, caller, sub, pseudoVars, bootVars>>

\* MutablePseudoComponent(comp)
PseudoNew ==
    /\ pc = "idle"
    /\ \E comp \in PseudoTypes :
         /\ pseudo' = MutablePseudoComponent(comp)
         /\ assigned' = [n \in DeclNames(comp) |-> << >>]
    /\ got' = << >>
    /\ pc' = "pseudo"
    /\ UNCHANGED <<meta, container, instance, context, entry, output, err, calls,
                   pass, extra0, calendar, caller, sub, bootVars>>

\* pseudo.<name>, for a declared field
PseudoGet ==
    /\ pc = "pseudo"
    /\ \E name \in DOMAIN assigned :
         got' = [op |-> "get", name |-> name, res |-> GetAttr(pseudo, name, 0)]
    /\ UNCHANGED <<meta, pc, container, instance, context, entry, output, err, calls,
                   pass, extra0, calendar, caller, sub, pseudo, assigned, bootVars>>

\* pseudo.<name> = value, for a declared field or NAME
PseudoSet ==
    /\ pc = "pseudo"
    /\ \E name \in DOMAIN assigned \cup {"NAME"}, value \in Dates :
         \E r \in {SetAttr(pseudo, name, value)} :
             /\ pseudo' = r.self
             /\ got' = [op |-> "set", name |-> name, res |-> r.err]
             /\ assigned' = IF name \in DOMAIN assigned
                             THEN [assigned EXCEPT ![name] = <<value>>]
                             ELSE assigned
    /\ UNCHANGED <<meta, pc, container, instance, context, entry, output, err, calls,
                   pass, extra0, calendar, caller, sub, bootVars>>

\* One call of initialize_converters.  byName: the call looks the name up
\* in the module (ics.initialize_converters()); otherwise it goes through a
\* reference to the function taken before the first call
\* (from ics import initialize_converters).  Line 38-39 rebind the global.
InitializeConverters ==
    /\ pc \in {"idle", "boot"}
    /\ booted.n < MaxBootCalls
    /\ \E byName \in BOOLEAN :
         boot' = IF byName /\ binding = "lambda" THEN NoopBody(boot)
                 ELSE InitializeBody(boot)
    /\ binding' = "lambda"
    /\ booted' = [n |-> booted.n + 1,
                  first |-> IF booted.n = 0 THEN <<boot'.registries>> ELSE booted.first]
    /\ pc' = "boot"
    /\ UNCHANGED <<meta, container, instance, context, entry, output, err, calls,
                   pass, extra0, calendar, caller, sub, pseudoVars>>

\* Calendar(string)
CalendarNew ==
    /\ pc = "idle"
    /\ \E given \in BOOLEAN, doc \in Documents, lazy \in BOOLEAN :
         /\ given \/ (doc = << >> /\ ~lazy)
         /\ calendar' = CalendarInit(given, doc, lazy)
    /\ pc' = "calendar"
    /\ UNCHANGED <<meta, container, instance, context, entry, output, err, calls,
                   pass, extra0, caller, sub, pseudoVars, bootVars>>

\* calendar.populate(container), called by a user on an empty Calendar()
CalendarPopulateCall ==
    /\ pc = "calendar"
    /\ calendar = NewCalendar
    /\ \E c \in CalendarContainers, lazy \in BOOLEAN :
         calendar' = CalendarPopulate(calendar, c, lazy)
    /\ UNCHANGED <<meta, pc, container, instance, context, entry, output, err,
                   calls, pass, extra0, caller, sub, pseudoVars, bootVars>>

Next ==
    \/ LoadInstance
    \/ LoadWithContext
    \/ Construct
    \/ ConstructTree
    \/ SerializeToplevel
    \/ SerializeWithContext
    \/ Reload
    \/ ImmutableLoad
    \/ PseudoNew
    \/ PseudoGet
    \/ PseudoSet
    \/ InitializeConverters
    \/ CalendarNew
    \/ CalendarPopulateCall

Spec == Init /\ [][Next]_vars

(***************************************************************************)
(* Properties                                                              *)
(***************************************************************************)
\* The last pass was a populate pass that got past the name check.
AfterPopulate == pc \in {"loaded", "load_failed"} /\ err # "ValueError"
\* The last pass was a serialize pass.
AfterSerialize == pc \in {"serialized", "serialize_failed"}

CallsOf(op) == SelectSeq(calls, LAMBDA c : c.op = op)
ConvsOf(cs) == [k \in 1..Len(cs) |-> cs[k].conv]
FieldsOf(convs) == [k \in 1..Len(convs) |-> convs[k].field]

\* The declared priority of the field a converter is bound to.
PriorityOf(f) ==
    LET decl == meta.component_type.fields
    IN  decl[CHOOSE i \in 1..Len(decl) : decl[i].name = f].priority

Ascending(cs) ==
    \A j, k \in 1..Len(cs) : j < k => PriorityOf(cs[j].conv) <= PriorityOf(cs[k].conv)

\* Some populate call on item i returned true.
Consumed(i) ==
    \E k \in 1..Len(calls) :
        calls[k].op = "populate" /\ calls[k].item = i /\ calls[k].ret

RECURSIVE UnconsumedFrom(_, _)
UnconsumedFrom(items, i) ==
    IF i > Len(items) THEN << >>
    ELSE (IF Consumed(i) THEN << >> ELSE <<items[i]>>) \o UnconsumedFrom(items, i + 1)

Unclaimed(item) == LookupGet(meta, item.name) = << >>

\* C1: after load_instance the instance's extra is the sequence of the
\* container's items that no populate call consumed (each once, unchanged,
\* in container order); the container serialize_toplevel returns for that
\* instance holds those items, unchanged and in that order, as its only
\* items under unclaimed names; and loading that container again succeeds
\* and gives the same extra.
C1_ExtraRoundTrip ==
    /\ pc = "loaded" => instance.extra = UnconsumedFrom(container.items, 1)
    /\ (pc = "serialized" /\ pass = 1) =>
          /\ instance.extra = SelectSeq(container.items, Unclaimed)
          /\ SelectSeq(output.items, Unclaimed) = instance.extra
    /\ pass = 2 => pc = "loaded" /\ instance.extra = extra0

\* Two different extras around converter-consumed lines survive the round trip.
C1_Witness ==
    /\ pass = 2 /\ pc = "loaded"
    /\ Len(instance.extra) = 2
    /\ instance.extra[1] # instance.extra[2]
    /\ Len(container.items) > 2
    /\ \E i \in 1..Len(container.items) : Consumed(i)

\* The populate calls made for item i, in call order.
CallsFor(i) == SelectSeq(calls, LAMBDA c : c.op = "populate" /\ c.item = i)

RECURSIVE ExpectedOffers(_, _)
ExpectedOffers(items, i) ==
    IF i > Len(items) THEN << >>
    ELSE [k \in 1..Len(LookupGet(meta, items[i].name)) |->
              <<i, LookupGet(meta, items[i].name)[k].field>>]
         \o ExpectedOffers(items, i + 1)

Count(seq, x) == Cardinality({k \in 1..Len(seq) : seq[k] = x})

\* A populate call of the last pass raised (the load of a member failed).
PopulateRaised ==
    \E k \in 1..Len(calls) : calls[k].op = "populate" /\ calls[k].raised

\* C2: in a populate pass the populate calls are, item by item in container
\* order, one call on every converter registered for the item's name (also
\* after an earlier call for that item returned true), and an item is in
\* extra if and only if no call for it returned true.  A pass that a
\* populate call ends with an exception has made these calls up to that one.
C2_OfferAll ==
    AfterPopulate =>
        LET offered == [k \in 1..Len(CallsOf("populate")) |->
                          <<CallsOf("populate")[k].item, CallsOf("populate")[k].conv>>]
            expected == ExpectedOffers(container.items, 1)
        IN  /\ Len(offered) <= Len(expected)
            /\ offered = SubSeq(expected, 1, Len(offered))
            /\ ~PopulateRaised =>
                 /\ offered = expected
                 /\ \A i \in 1..Len(container.items) :
                      (\A k \in 1..Len(CallsFor(i)) : ~CallsFor(i)[k].ret)
                         <=> container.items[i] \in SeqToSet(instance.extra)
                 /\ Len(instance.extra) =
                      Cardinality({i \in 1..Len(container.items) : ~Consumed(i)})

\* A line claimed by two converters: the second is called after the first
\* returned true; another item of the container went to extra.
C2_Witness ==
    /\ pc = "loaded"
    /\ \E i \in 1..Len(container.items) :
         /\ Len(CallsFor(i)) = 2
         /\ CallsFor(i)[1].ret /\ CallsFor(i)[2].ret
         /\ CallsFor(i)[1].conv # CallsFor(i)[2].conv
    /\ instance.extra # << >>

\* C3: in a populate pass no populate call follows a finalize call, the
\* finalize calls follow the converter tuple in ascending priority order
\* without repetition, and a pass that runs to its end has called finalize
\* exactly once on every converter of the type, whether or not it consumed
\* an item.
C3_FinalizeOrder ==
    AfterPopulate =>
        /\ \A j, k \in 1..Len(calls) :
             (j < k /\ calls[j].op = "finalize") => calls[k].op = "finalize"
        /\ LET fin == ConvsOf(CallsOf("finalize"))
           IN  /\ Len(fin) <= Len(meta.converters)
               /\ fin = SubSeq(FieldsOf(meta.converters), 1, Len(fin))
               /\ pc = "loaded" => fin = FieldsOf(meta.converters)
        /\ Ascending(CallsOf("finalize"))
        /\ \A f \in FieldNames :
             Count(ConvsOf(CallsOf("finalize")), f) <= 1

\* A completed pass over a type whose converters differ in priority, one of
\* which (the person converter) consumed nothing while another consumed.
C3_Witness ==
    /\ pc = "loaded"
    /\ CallsOf("populate") # << >>
    /\ \E j, k \in 1..Len(CallsOf("finalize")) :
         /\ j < k
         /\ PriorityOf(CallsOf("finalize")[j].conv) < PriorityOf(CallsOf("finalize")[k].conv)
         /\ \A n \in 1..Len(calls) :
              calls[n].op = "populate" => calls[n].conv # CallsOf("finalize")[j].conv

HasRecurrenceConverter ==
    \E k \in 1..Len(meta.converters) : meta.converters[k].kind = "Recurrence"

HoldsRecurrenceLine(c) ==
    \E i \in 1..Len(c.items) : c.items[i].name \in SeqToSet(RecurrenceNames)

\* C4 (as claimed): a populate pass over a container that holds none of
\* RRULE, RDATE, EXRULE, EXDATE, DTSTART ends without an exception, also for
\* a type with a recurrence field.
C4_FinalizeNoOpSafe ==
    (AfterPopulate /\ HasRecurrenceConverter /\ ~HoldsRecurrenceLine(container))
        => (pc = "loaded" /\ err = "none")

RECURSIVE Concat(_)
Concat(ss) == IF ss = << >> THEN << >> ELSE Head(ss) \o Concat(Tail(ss))

\* The lines the converters' serialize calls appended, in call order.
Produced == Concat([k \in 1..Len(CallsOf("serialize")) |-> CallsOf("serialize")[k].out])

\* C5: the container serialize_toplevel returns is named component_type.NAME
\* and holds the output of one serialize call per converter, in ascending
\* priority order, followed by the items of extra in stored order.
C5_SerializeLayout ==
    pc = "serialized" =>
        /\ output.name = meta.component_type.NAME
        /\ ConvsOf(CallsOf("serialize")) = FieldsOf(meta.converters)
        /\ Ascending(CallsOf("serialize"))
        /\ output.items = Produced \o instance.extra

\* Converters of different priority produced lines and extra is not empty.
C5_Witness ==
    /\ pc = "serialized"
    /\ Produced # << >>
    /\ instance.extra # << >>
    /\ \E j, k \in 1..Len(CallsOf("serialize")) :
         PriorityOf(CallsOf("serialize")[j].conv) < PriorityOf(CallsOf("serialize")[k].conv)

\* C6 (as claimed): every Calendar.populate call on a container with exactly
\* one PRODID line succeeds and sets creator to that line's value; on any
\* other container it fails with a parse error and leaves creator unset.
C6_ProdidRule ==
    \A k \in 1..Len(calendar.populated) :
        LET c == calendar.populated[k]
            prodids == SelectSeq(c.items, LAMBDA x : x.name = "PRODID")
        IN  IF Len(prodids) = 1
            THEN calendar.err = "none" /\ calendar.creator = <<prodids[1].value>>
            ELSE calendar.err = "ParseError" /\ calendar.creator = << >>

\* C7: a Calendar constructed from text whose parsed top level is not exactly
\* one container is rejected (NotImplementedError) with populate never
\* called; with exactly one container populate is called once, on it.
C7_OneContainerOnly ==
    calendar.source # << >> =>
        LET doc == calendar.source[1]
        IN  IF Len(doc) # 1
            THEN /\ calendar.err = "NotImplementedError"
                 /\ calendar.populated = << >>
                 /\ calendar.creator = << >>
            ELSE calendar.populated = <<doc[1]>>

\* Two top-level containers, the first a well-formed calendar: rejected.
C7_Witness ==
    /\ calendar.source # << >>
    /\ Len(calendar.source[1]) = 2
    /\ Len(Creators(calendar.source[1][1])) = 1
    /\ calendar.err = "NotImplementedError"

IsRecurrenceField(f) ==
    \E k \in 1..Len(meta.converters) :
        meta.converters[k].field = f /\ meta.converters[k].kind = "Recurrence"

\* The serialize calls of the last pass made on recurrence converters that
\* found a rule-set on their field.
RecurrenceSerializeCalls ==
    SelectSeq(calls, LAMBDA c : /\ c.op = "serialize"
                                /\ IsRecurrenceField(c.conv)
                                /\ instance.values[c.conv] # << >>)

StoredRuleSet(c) == instance.values[c.conv][1]

\* The non-null start instants of a rule-set's repeating and excluded rules.
Starts(rs) ==
    {(rs.rrule \o rs.exrule)[i].dtstart : i \in 1..Len(rs.rrule \o rs.exrule)}
        \ {None}

\* C8: a RecurrenceConverter.serialize call raises ValueError whenever two
\* of the rule-set's repeating and excluded rules carry different non-null
\* start instants, or a rule's start instant differs from the DTSTART the
\* context holds when the call begins.
C8_DtstartConflict ==
    AfterSerialize =>
        \A k \in 1..Len(RecurrenceSerializeCalls) :
            LET c == RecurrenceSerializeCalls[k]
                D == Starts(StoredRuleSet(c))
            IN  (\/ Cardinality(D) >= 2
                 \/ (c.dt0 # None /\ \E d \in D : d # c.dt0))
                  => (c.raised /\ err = "ValueError" /\ pc = "serialize_failed")

\* A repeating rule and an excluded rule with different start instants,
\* serialized without a context argument.
C8_Witness ==
    /\ pc = "serialize_failed" /\ err = "ValueError" /\ entry = << >>
    /\ \E k \in 1..Len(RecurrenceSerializeCalls) :
         LET rs == StoredRuleSet(RecurrenceSerializeCalls[k])
         IN  /\ Len(rs.rrule) = 1 /\ Len(rs.exrule) = 1
             /\ rs.rrule[1].dtstart # None /\ rs.exrule[1].dtstart # None
             /\ rs.rrule[1].dtstart # rs.exrule[1].dtstart

DtstartLines(c) == Len(SelectSeq(c.out, LAMBDA l : l.name = "DTSTART"))

\* C9: one RecurrenceConverter.serialize call appends at most one DTSTART
\* line; exactly one when the context holds no DTSTART as the call begins and
\* some rule carries a start instant; none when the context already holds a
\* DTSTART equal to a rule's start instant.
C9_OneDtstartLine ==
    AfterSerialize =>
        \A k \in 1..Len(RecurrenceSerializeCalls) :
            LET c == RecurrenceSerializeCalls[k]
                D == Starts(StoredRuleSet(c))
            IN  /\ DtstartLines(c) <= 1
                /\ (c.dt0 = None /\ D # {}) => DtstartLines(c) = 1
                /\ (c.dt0 # None /\ c.dt0 \in D) => DtstartLines(c) = 0

\* Three rules carrying the same start instant, no DTSTART in the context on
\* entry: one line.
C9_Witness ==
    /\ pc = "serialized"
    /\ \E k \in 1..Len(RecurrenceSerializeCalls) :
         LET c == RecurrenceSerializeCalls[k]
             rs == StoredRuleSet(c)
         IN  /\ c.dt0 = None
             /\ Len(rs.rrule) = 2 /\ Len(rs.exrule) = 1
             /\ \A i \in 1..3 : (rs.rrule \o rs.exrule)[i].dtstart # None
             /\ DtstartLines(c) = 1

StrictlyAscending(ds) == \A j, k \in 1..Len(ds) : j < k => ds[j] < ds[k]

\* The recurrence lines of the loaded container, as every recurrence
\* converter of the type accumulates them.
RecurrenceLinesOf(c) ==
    SelectSeq(c.items, LAMBDA l : l.name \in SeqToSet(RecurrenceNames))

\* The instants on the lines named n among the lines `out`.
DatesOn(out, n) == AllDates(Named(out, n))

\* C10: after finalize the stored inclusion dates and exclusion dates are
\* strictly ascending (sorted, no two equal) and are the dates the parser
\* read; serialize emits one RDATE line per distinct inclusion date and one
\* EXDATE line per distinct exclusion date, ascending, and for a rule-set
\* stored by finalize the emitted dates are the stored lists.
C10_DatesSortedDeduped ==
    /\ pc = "loaded" =>
         \A f \in FieldNames : IsRecurrenceField(f) =>
            /\ instance.values[f] # << >>
            /\ LET rs == instance.values[f][1]
                   parsed == rrulestr(RecurrenceLinesOf(container), None)
               IN  /\ StrictlyAscending(rs.rdate)
                   /\ StrictlyAscending(rs.exdate)
                   /\ SeqToSet(rs.rdate) = SeqToSet(parsed.rdate)
                   /\ SeqToSet(rs.exdate) = SeqToSet(parsed.exdate)
    /\ pc = "serialized" =>
         \A k \in 1..Len(RecurrenceSerializeCalls) :
            LET c == RecurrenceSerializeCalls[k]
                rs == StoredRuleSet(c)
            IN  /\ StrictlyAscending(DatesOn(c.out, "RDATE"))
                /\ StrictlyAscending(DatesOn(c.out, "EXDATE"))
                /\ SeqToSet(DatesOn(c.out, "RDATE")) = SeqToSet(rs.rdate)
                /\ SeqToSet(DatesOn(c.out, "EXDATE")) = SeqToSet(rs.exdate)
                /\ Len(Named(c.out, "RDATE")) = Cardinality(SeqToSet(rs.rdate))
                /\ Len(Named(c.out, "EXDATE")) = Cardinality(SeqToSet(rs.exdate))
                /\ pass = 1 => /\ DatesOn(c.out, "RDATE") = rs.rdate
                               /\ DatesOn(c.out, "EXDATE") = rs.exdate

\* Unsorted dates with a repetition on an RDATE and an EXDATE line, loaded
\* and serialized again.
C10_Witness ==
    /\ pc = "serialized" /\ pass = 1
    /\ \E i, j \in 1..Len(container.items) :
         /\ container.items[i] = ContentLine("RDATE", DateListText(<<2, 1, 2>>))
         /\ container.items[j] = ContentLine("EXDATE", DateListText(<<2, 1, 2>>))
    /\ \E k \in 1..Len(RecurrenceSerializeCalls) :
         LET c == RecurrenceSerializeCalls[k]
         IN  /\ StoredRuleSet(c).rdate = <<1, 2>>
             /\ StoredRuleSet(c).exdate = <<1, 2>>
             /\ DatesOn(c.out, "RDATE") = <<1, 2>>

\* The alarm sub-containers of the loaded container, in container order.
AlarmItems == SelectSeq(container.items, LAMBDA x : x.name = "VALARM")

\* The values of the ACTION lines of an alarm sub-container.
ActionsOf(item) ==
    {item.value[j].value : j \in {j \in 1..Len(item.value) : item.value[j].name = "ACTION"}}

\* C11: in a populate pass of a type with an alarm field every VALARM
\* sub-container is consumed (the alarm converter returns true, the item
\* does not go to the parent's extra) and never ends the pass with an error;
\* the k-th stored alarm is built from the k-th VALARM sub-container: a
\* DisplayAlarm for ACTION:DISPLAY, the fallback NoneAlarm for an unknown or
\* absent ACTION, and its extra holds the sub-container's lines its type has
\* no converter for, in order.
C11_AlarmDispatch ==
    (AfterPopulate /\ "Alarm" \in KindsOf(meta)) =>
        /\ ~PopulateRaised
        /\ \A i \in 1..Len(container.items) :
             container.items[i].name = "VALARM" =>
                /\ Len(CallsFor(i)) = 1 /\ CallsFor(i)[1].ret
                /\ container.items[i] \notin SeqToSet(instance.extra)
        /\ Len(instance.values["alarms"]) = Len(AlarmItems)
        /\ \A k \in 1..Len(AlarmItems) :
             LET alarm == instance.values["alarms"][k]
                 item == AlarmItems[k]
             IN  /\ alarm.type \in AlarmClasses
                 /\ ActionsOf(item) = {Text("DISPLAY")} => alarm.type = "DisplayAlarm"
                 /\ ActionsOf(item) \cap {Text("DISPLAY"), Text("AUDIO"), Text("EMAIL")} = {}
                        => alarm.type = "NoneAlarm"
                 /\ alarm.extra =
                        SelectSeq(item.value,
                                  LAMBDA l : LookupGet(BY_TYPE(alarm.type), l.name) = << >>)

\* An event loaded from a display alarm and an alarm of unknown action, each
\* with a line its type does not understand.
C11_Witness ==
    /\ pc = "loaded"
    /\ Len(AlarmItems) = 2
    /\ ActionsOf(AlarmItems[1]) = {Text("DISPLAY")}
    /\ ActionsOf(AlarmItems[2]) = {Text("X-OTHER")}
    /\ instance.values["alarms"][1].type = "DisplayAlarm"
    /\ instance.values["alarms"][2].type = "NoneAlarm"
    /\ ContentLine("X-A", Text(1)) \in SeqToSet(instance.values["alarms"][2].extra)

\* C12: a load of a container whose name differs from component_type.NAME
\* fails with ValueError before any populate or finalize call; the instance
\* still has no field set and an empty extra, the context the caller passed
\* is as it was, and no instance is returned.
C12_NameMismatch ==
    (pc \in {"loaded", "load_failed"} /\ container.name # meta.component_type.NAME) =>
        /\ pc = "load_failed" /\ err = "ValueError"
        /\ calls = << >>
        /\ instance = NewInstance(meta.component_type)
        /\ caller = entry

\* A container of another name holding a line a converter of the type
\* claims, loaded with a context that has an entry.
C12_Witness ==
    /\ pc = "load_failed" /\ err = "ValueError"
    /\ container.name = "VOTHER"
    /\ \E i \in 1..Len(container.items) : ~Unclaimed(container.items[i])
    /\ entry # << >> /\ entry[1].AVAILABLE_TZ
    /\ caller = entry

IsMemberField(f) ==
    \E k \in 1..Len(meta.converters) :
        meta.converters[k].field = f /\ meta.converters[k].kind \in {"Member", "Alarm"}

\* The serialize calls of the last pass made on member converters.
MemberSerializeCalls ==
    SelectSeq(calls, LAMBDA c : c.op = "serialize" /\ IsMemberField(c.conv))

\* The extra params the serialized component holds for a field.
ExtraParamsFor(f) == SelectSeq(instance.extra_params, LAMBDA e : e[1] = f)

\* C13: a serialize call of a member converter (plain or alarm) on a parent
\* that holds extra params for the field raises ValueError and has appended
\* nothing to the output container; without extra params a call that returns
\* has appended one sub-container per member value, in list order, each
\* named after its value's type and ending with the value's extra.
C13_ExtraParamsError ==
    AfterSerialize =>
        \A k \in 1..Len(MemberSerializeCalls) :
            LET c == MemberSerializeCalls[k]
                values == instance.values[c.conv]
            IN  /\ ExtraParamsFor(c.conv) # << >> =>
                     /\ c.raised /\ c.out = << >>
                     /\ pc = "serialize_failed" /\ err = "ValueError"
                     /\ output.items = Produced
                /\ (ExtraParamsFor(c.conv) = << >> /\ ~c.raised) =>
                     /\ Len(c.out) = Len(values)
                     /\ \A j \in 1..Len(values) :
                          /\ c.out[j].kind = "container"
                          /\ c.out[j].name = TypeOf(values[j].type).NAME
                          /\ SelectSeq(c.out[j].value,
                                       LAMBDA l : LookupGet(BY_TYPE(values[j].type), l.name) = << >>)
                                = values[j].extra
                /\ (ExtraParamsFor(c.conv) = << >> /\ c.raised) =>
                     Len(c.out) < Len(values)

\* A parent with two different members and extra params for their field:
\* the call raises and the output holds no sub-container.
C13_Witness ==
    /\ pc = "serialize_failed" /\ err = "ValueError"
    /\ \E k \in 1..Len(MemberSerializeCalls) :
         LET c == MemberSerializeCalls[k]
         IN  /\ ExtraParamsFor(c.conv) # << >>
             /\ Len(instance.values[c.conv]) = 2
             /\ instance.values[c.conv][1] # instance.values[c.conv][2]
             /\ c.raised
    /\ \A i \in 1..Len(output.items) : output.items[i].kind = "line"

\* Without extra params: two different members, two sub-containers in order.
C13_Appended ==
    /\ pc = "serialized"
    /\ \E k \in 1..Len(MemberSerializeCalls) :
         LET c == MemberSerializeCalls[k]
         IN  /\ Len(c.out) = 2
             /\ instance.values[c.conv][1].extra # instance.values[c.conv][2].extra

\* The declared default of a field of a type: << >> for none, else <<v>>.
DefaultOf(comp, n) ==
    LET fs == attr_fields(comp)
        f == fs[CHOOSE i \in 1..Len(fs) : fs[i].name = n]
    IN  IF ~f.init \/ f.default[1] = "NOTHING" THEN << >>
        ELSE IF f.default[1] = "Factory" THEN <<FactoryResult(n, f.default[2])>>
        ELSE <<f.default[2]>>

\* C14 (as claimed): ImmutableComponentMeta.load_instance on a container of
\* the type's name returns a real instance, constructed after every populate
\* and finalize call of the pass, holding every field of the pseudo-instance
\* and, as extra and extra_params, exactly what the pass accumulated on the
\* pseudo-instance, in order.
C14_ImmutableLoad ==
    (pc \in {"immutable_loaded", "immutable_failed"}
        /\ container.name = meta.component_type.NAME) =>
        /\ pc = "immutable_loaded" /\ err = "none"
        /\ instance.type = meta.component_type.cls
        /\ calls # << >> /\ Last(calls).op = "construct"
        /\ \A k \in 1..(Len(calls) - 1) : calls[k].op \in {"populate", "finalize"}
        /\ ConvsOf(CallsOf("finalize")) = FieldsOf(meta.converters)
        /\ \A f \in DeclNames(meta.component_type) :
             instance.values[f] = DefaultOf(meta.component_type, f)
        /\ instance.extra = SelectSeq(container.items, Unclaimed)
        /\ instance.extra_params = << >>

\* The pseudo-instance is the one MutablePseudoComponent(comp) made.
PseudoOf(comp) ==
    /\ pseudo # << >>
    /\ pseudo["NAME"] = comp.NAME
    /\ DOMAIN assigned = DeclNames(comp)

\* C17 (as claimed): reading a declared field of a MutablePseudoComponent
\* returns the value last set on it, or else its declared default (the
\* factory's result for a factory default); setting a declared field succeeds
\* and leaves NAME, extra and extra_params as the constructor set them.
C17_PseudoGetSet ==
    (pc = "pseudo" /\ got # << >>) =>
        \E comp \in PseudoTypes :
            /\ PseudoOf(comp)
            /\ pseudo["extra"] = Container(comp.NAME)
            /\ pseudo["extra_params"] = << >>
            /\ (got.op = "set" /\ got.name \in DeclNames(comp)) => got.res = "none"
            /\ got.op = "get" =>
                 LET expected == IF assigned[got.name] # << >> THEN assigned[got.name]
                                 ELSE DefaultOf(comp, got.name)
                 IN  expected # << >> => got.res = Ok(expected[1])

\* C15 (as claimed): once the first call of initialize_converters has
\* completed, every further call leaves the three registries as that call
\* left them: the same keys, each mapped to the same object.
C15_BootIdempotent ==
    booted.n >= 1 => boot.registries = booted.first[1]

(***************************************************************************)
(* The shape of a constructed ComponentMeta.                               *)
(***************************************************************************)
\* The indices of the declared fields that resolve to a converter.
ResolvedFields(component_type) ==
    {k \in 1..Len(component_type.fields) :
        get_converter_for(component_type.fields[k]) # << >>}

\* Every name a container item or a converter of the model can carry.
AllNames ==
    SeqToSet(RecurrenceNames) \cup {t.NAME : t \in ComponentTypes \cup AlarmTypes}
        \cup {"X-A", "X-OTHER", "ACTION", "PRODID", "VERSION", "VOTHER"}

\* s is a sequence without repetition.
Injective(s) == \A i, j \in 1..Len(s) : s[i] = s[j] => i = j

\* C16: the converters of a constructed ComponentMeta are in ascending order
\* of priority and are exactly the converters of the declared fields that
\* resolve to one (a field that resolves to none is left out); the lookup
\* gives for every name exactly the converters whose filter_ics_names holds
\* the name, each once and in ascending priority; a converter without names
\* (PersonConverter) is under no name and no populate call is made on it.
C16_MetaShape ==
    LET cs == meta.converters
        fs == meta.component_type.fields
    IN  /\ \A i, j \in 1..Len(cs) : i < j => cs[i].priority <= cs[j].priority
        /\ Injective(cs)
        /\ SeqToSet(cs) = {get_converter_for(fs[k])[1] :
                              k \in ResolvedFields(meta.component_type)}
        /\ \A n \in AllNames :
             LET l == LookupGet(meta, n)
             IN  /\ Injective(l)
                 /\ SeqToSet(l) =
                      {c \in SeqToSet(cs) : n \in SeqToSet(filter_ics_names(c))}
                 /\ \A i, j \in 1..Len(l) : i < j => l[i].priority <= l[j].priority
        /\ DOMAIN meta.converter_lookup \subseteq AllNames
        /\ \A n \in DOMAIN meta.converter_lookup : meta.converter_lookup[n] # << >>
        /\ \A c \in SeqToSet(cs) :
             c.kind = "Person" =>
               /\ \A n \in AllNames : c \notin SeqToSet(LookupGet(meta, n))
               /\ \A k \in 1..Len(calls) :
                    calls[k].op = "populate" => calls[k].conv # c.field

\* A type whose declaration order is not the priority order, with a field
\* that resolves to no converter and a PersonConverter, after a populate
\* pass that offered items to other converters.
C16_Witness ==
    /\ pc = "loaded"
    /\ Len(meta.converters) < Len(meta.component_type.fields)
    /\ "Person" \in KindsOf(meta)
    /\ meta.converters # ResolveFields(meta.component_type.fields)
    /\ \E k \in 1..Len(calls) : calls[k].op = "populate"

(***************************************************************************)
(* Members serialized through one context.                                 *)
(***************************************************************************)
\* The record of the first member serialized by the converter of sub[i].
FirstMember(i) ==
    sub[CHOOSE j \in 1..Len(sub) : sub[j].conv = sub[i].conv /\ sub[j].k = 1]

\* The member component that sub[i] records.
MemberValue(i) == instance.values[sub[i].conv][sub[i].k]

\* The serialize calls on a member's recurrence converters.
MemberRecurrenceCalls(i) ==
    SelectSeq(sub[i].calls, LAMBDA c : /\ c.op = "serialize"
                                       /\ IsRecurrenceField(c.conv)
                                       /\ MemberValue(i).values[c.conv] # << >>)

\* C18 (as claimed): as the serialization of a member begins, the context
\* holds no DTSTART or the one it held when the first member of that field
\* began, not one written while an earlier sibling was serialized; so a
\* member whose rules carry one start instant, in a pass that began without
\* DTSTART, gets its DTSTART line and no conflict with a sibling's start.
C18_NoSiblingDtstart ==
    AfterSerialize =>
        \A i \in 1..Len(sub) :
            /\ sub[i].dt0 \in {None, FirstMember(i).dt0}
            /\ \A k \in 1..Len(MemberRecurrenceCalls(i)) :
                 LET c == MemberRecurrenceCalls(i)[k]
                     D == Starts(MemberValue(i).values[c.conv][1])
                 IN  (FirstMember(i).dt0 = None /\ Cardinality(D) = 1)
                        => (~c.raised /\ DtstartLines(c) = 1)

(***************************************************************************)
(* The recurrence accumulator.                                             *)
(***************************************************************************)
\* The lines of a container that RecurrenceConverter claims, in order.
OwnLines(items) ==
    SelectSeq(items, LAMBDA l : l.kind = "line" /\ l.name \in SeqToSet(RecurrenceNames))

\* The rule-set finalize builds from exactly these lines.
BuiltFrom(items, now) ==
    LET rs == rrulestr(OwnLines(items), now)
    IN  [rs EXCEPT !.rdate = Dedup(rs.rdate), !.exdate = Dedup(rs.exdate)]

\* The event sub-containers of the loaded container, in order.
SubContainers ==
    SelectSeq(container.items,
              LAMBDA l : l.kind = "container" /\ l.name = TypeOf("Event").NAME)

RecurrenceFieldsOf(m) ==
    {m.converters[k].field : k \in {j \in 1..Len(m.converters) :
                                       m.converters[j].kind = "Recurrence"}}

\* C19: every populate call on a RecurrenceConverter that returns, returns
\* true; after a load the context holds no accumulator, the rule-set of the
\* loaded component is the one its own recurrence lines give, in container
\* order, and the rule-set of every member component loaded through the
\* same context is the one the lines of its own sub-container give.
C19_OwnLinesOnly ==
    /\ AfterPopulate =>
         \A k \in 1..Len(calls) :
            (calls[k].op = "populate" /\ IsRecurrenceField(calls[k].conv)
                /\ ~calls[k].raised) => calls[k].ret
    /\ pc = "loaded" =>
         /\ \A f \in FieldNames : context.lines[f] = NoLines
         /\ \E now \in {None} \cup Dates :
              /\ \A f \in RecurrenceFieldsOf(meta) :
                   instance.values[f] = << BuiltFrom(container.items, now) >>
              /\ \A f \in {"events"} \cap {meta.converters[k].field :
                                              k \in 1..Len(meta.converters)} :
                   /\ Len(instance.values[f]) = Len(SubContainers)
                   /\ \A j \in 1..Len(SubContainers) :
                        instance.values[f][j].values["rrule"] =
                            << BuiltFrom(SubContainers[j].value, now) >>

\* Two events loaded one after the other through a context the caller
\* passed with an entry; their recurrence lines and rule-sets differ.
C19_Witness ==
    /\ pc = "loaded"
    /\ entry # << >> /\ ~IsEmptyContext(entry[1])
    /\ meta.component_type.cls = "Calendar"
    /\ Len(SubContainers) = 2
    /\ Len(instance.values["events"]) = 2
    /\ OwnLines(SubContainers[1].value) # OwnLines(SubContainers[2].value)
    /\ instance.values["events"][1].values["rrule"] #
         instance.values["events"][2].values["rrule"]

(***************************************************************************)
(* The context argument of a pass.                                         *)
(***************************************************************************)
\* C20 (as claimed): after a pass to which the caller passed a context, the
\* caller's context is the context the converters of the pass worked on,
\* with every entry they left, also when it was passed without entries; and
\* every member serialized in the pass worked on the context its parent
\* passed.
C20_SameContext ==
    /\ (pc \in {"loaded", "load_failed", "serialized", "serialize_failed"}
           /\ entry # << >>) => caller = <<context>>
    /\ AfterSerialize => \A i \in 1..Len(sub) : sub[i].shared

====
